---------------------------- MODULE Spec2Model ----------------------------
(***************************************************************************)
(* A model of the command-line front end of nuvolaris/task:                *)
(*   - cmd/taskmain/task.go   : Task(arguments), getArgs(), and the two     *)
(*     library routines its behaviour rests on, pflag v1.0.5 FlagSet.Parse  *)
(*     and mvdan.cc/sh/v3 v3.6.0 syntax.Quote (versions pinned by the       *)
(*     go.mod text at the end of task.go);                                  *)
(*   - internal/templater/funcs.go : the init() that builds templateFuncs.  *)
(*                                                                         *)
(* A Go string is modelled as a sequence of one-character strings, so that  *)
(* lexing, quoting and word splitting are computed character by character.  *)
(* Characters that have no printable spelling are named: NUL, SOH, TAB...   *)
(***************************************************************************)
EXTENDS Integers, Sequences, FiniteSets, TLC

VARIABLES
    pc,            \* position of the running specification's control flow
    arguments,     \* the []string passed to Task
    CommandLine,   \* the process-global pflag.CommandLine flag set
    pflags,        \* the local pflag.FlagSet{} of Task, after Parse
    opts,          \* the flag variables of Task (versionFlag, helpFlag, ...)
    parsed,        \* history: the flag variables as pflags.Parse left them
    e,             \* the task.Executor built by Task
    v,             \* the value returned by e.Taskfile.ParsedVersion()
    tasksAndVars,  \* first result of getArgs()
    cliArgs,       \* second result of getArgs()
    calls,         \* calls built by args.ParseV3 / args.ParseV2
    globals,       \* globals built by args.ParseV3 / args.ParseV2
    builder,       \* which call builder ran, and the tokens it was handed
    err,           \* the last error value Task or getArgs obtained
    runErr,        \* what e.Run returned
    taskfileVars,  \* e.Taskfile.Vars
    trace,         \* the collaborator calls and outputs made so far, in order
    exit,          \* the process exit code, Running while Task has not ended
    sprigFuncs,    \* funcs.go: the map sprig.TxtFuncMap() returns
    taskFuncs,     \* funcs.go: the local map taskFuncs of init()
    templateFuncs, \* funcs.go: the package variable templateFuncs
    pending,       \* funcs.go: keys the range loop of init() has yet to visit
    initRuns,      \* funcs.go: how many times init() has run
    looked         \* funcs.go: the lookups of templateFuncs made so far

vars == << pc, arguments, CommandLine, pflags, opts, parsed, e, v, tasksAndVars, cliArgs,
           calls, globals, builder, err, runErr, taskfileVars, trace, exit,
           sprigFuncs, taskFuncs, templateFuncs, pending, initRuns, looked >>

taskVars == << arguments, CommandLine, pflags, opts, parsed, e, v, tasksAndVars, cliArgs,
               calls, globals, builder, err, runErr, taskfileVars, trace, exit >>

funcVars == << sprigFuncs, taskFuncs, templateFuncs, pending, initRuns, looked >>

-----------------------------------------------------------------------------
(* Strings as character sequences.                                          *)

NUL == "NUL"
SOH == "SOH"
TAB == "TAB"
LF  == "LF"
CR  == "CR"
BEL == "BEL"
BS  == "BS"
FF  == "FF"
VT  == "VT"
BQ  == "BQ"   \* the backquote character

Null == "null"

EmptyStr == << >>

Contains(s, c) == \E i \in 1..Len(s) : s[i] = c

\* strings.Index(s, c) for a one-character c, 0 when absent (Go: -1)
IndexOf(s, c) ==
    IF Contains(s, c)
    THEN CHOOSE i \in 1..Len(s) : s[i] = c /\ \A j \in 1..(i - 1) : s[j] # c
    ELSE 0

LastIndexOf(s, c) ==
    IF Contains(s, c)
    THEN CHOOSE i \in 1..Len(s) : s[i] = c /\ \A j \in (i + 1)..Len(s) : s[j] # c
    ELSE 0

RECURSIVE Join(_, _)
\* strings.Join(elems, sep)
Join(elems, sep) ==
    IF Len(elems) = 0 THEN EmptyStr
    ELSE IF Len(elems) = 1 THEN elems[1]
    ELSE elems[1] \o sep \o Join(Tail(elems), sep)

-----------------------------------------------------------------------------
(* mvdan.cc/sh/v3/syntax.Quote(s, LangBash), as called by getArgs and       *)
(* shellQuote.                                                              *)

\* unicode.IsPrint: false for the control characters
NonPrintable == { NUL, SOH, TAB, LF, CR, BEL, BS, FF, VT }

IsPrint(c) == c \notin NonPrintable

\* the characters of Quote's first switch that set shellChars
ShellChars ==
    { ";", "\"", "'", "(", ")", "$", "|", "&", ">", "<", BQ,
      " ", TAB, CR, LF, "\\", "#", "{", "~", "*", "?", "[", "=" }

HexDigits ==
    { "0", "1", "2", "3", "4", "5", "6", "7", "8", "9",
      "a", "b", "c", "d", "e", "f", "A", "B", "C", "D", "E", "F" }

isHex(c) == c \in HexDigits

Keywords ==
    { <<"!">>,
      <<"[", "[">>,
      <<"]", "]">>,
      <<"c", "a", "s", "e">>,
      <<"c", "o", "p", "r", "o", "c">>,
      <<"d", "o">>,
      <<"d", "o", "n", "e">>,
      <<"e", "l", "s", "e">>,
      <<"e", "s", "a", "c">>,
      <<"f", "i">>,
      <<"f", "o", "r">>,
      <<"f", "u", "n", "c", "t", "i", "o", "n">>,
      <<"i", "f">>,
      <<"i", "n">>,
      <<"s", "e", "l", "e", "c", "t">>,
      <<"t", "h", "e", "n">>,
      <<"t", "i", "m", "e">>,
      <<"u", "n", "t", "i", "l">>,
      <<"w", "h", "i", "l", "e">>,
      <<"{">>,
      <<"}">> }

IsKeyword(s) == s \in Keywords

\* the named escapes of the $'...' branch
NamedEscape ==
    [ c \in { BEL, BS, FF, LF, CR, TAB, VT } |->
        CASE c = BEL -> "a"
          [] c = BS  -> "b"
          [] c = FF  -> "f"
          [] c = LF  -> "n"
          [] c = CR  -> "r"
          [] c = TAB -> "t"
          [] c = VT  -> "v" ]

\* fmt.Fprintf(&b, "\\x%02x", rem[0]): the two hex digits of a control byte
ByteHex == [ c \in { SOH } |-> <<"0", "1">> ]

RECURSIVE AnsiBody(_, _, _)
\* the loop of the nonPrintable branch, from index i, lastRequoteIfHex = last
AnsiBody(s, i, last) ==
    IF i > Len(s) THEN EmptyStr
    ELSE LET r == s[i] IN
         IF r = "'" \/ r = "\\"
         THEN <<"\\", r>> \o AnsiBody(s, i + 1, FALSE)
         ELSE IF IsPrint(r)
         THEN (IF last /\ isHex(r) THEN <<"'", "$", "'">> ELSE EmptyStr)
              \o <<r>> \o AnsiBody(s, i + 1, FALSE)
         ELSE IF r \in DOMAIN NamedEscape
         THEN <<"\\", NamedEscape[r]>> \o AnsiBody(s, i + 1, FALSE)
         ELSE <<"\\", "x">> \o ByteHex[r] \o AnsiBody(s, i + 1, TRUE)

RECURSIVE DoubleBody(_, _)
\* the loop of the double-quote branch
DoubleBody(s, i) ==
    IF i > Len(s) THEN EmptyStr
    ELSE (IF s[i] \in { "\"", "\\", BQ, "$" } THEN <<"\\">> ELSE EmptyStr)
         \o <<s[i]>> \o DoubleBody(s, i + 1)

\* a mutation of Quote: the double-quote branch escapes nothing
QuoteNoEscape(s) ==
    IF s = EmptyStr THEN [err |-> FALSE, s |-> <<"'", "'">>]
    ELSE IF Contains(s, NUL) THEN [err |-> TRUE, s |-> EmptyStr]
    ELSE IF ~(\E i \in 1..Len(s) : s[i] \in ShellChars)
            /\ ~(\E i \in 1..Len(s) : ~IsPrint(s[i]))
            /\ ~IsKeyword(s)
    THEN [err |-> FALSE, s |-> s]
    ELSE IF \E i \in 1..Len(s) : ~IsPrint(s[i])
    THEN [err |-> FALSE, s |-> <<"$", "'">> \o AnsiBody(s, 1, FALSE) \o <<"'">>]
    ELSE IF ~Contains(s, "'")
    THEN [err |-> FALSE, s |-> <<"'">> \o s \o <<"'">>]
    ELSE [err |-> FALSE, s |-> <<"\"">> \o s \o <<"\"">>]

Quote(s) ==
    IF s = EmptyStr THEN [err |-> FALSE, s |-> <<"'", "'">>]
    ELSE IF Contains(s, NUL) THEN [err |-> TRUE, s |-> EmptyStr]
    ELSE IF ~(\E i \in 1..Len(s) : s[i] \in ShellChars)
            /\ ~(\E i \in 1..Len(s) : ~IsPrint(s[i]))
            /\ ~IsKeyword(s)
    THEN [err |-> FALSE, s |-> s]
    ELSE IF \E i \in 1..Len(s) : ~IsPrint(s[i])
    THEN [err |-> FALSE, s |-> <<"$", "'">> \o AnsiBody(s, 1, FALSE) \o <<"'">>]
    ELSE IF ~Contains(s, "'")
    THEN [err |-> FALSE, s |-> <<"'">> \o s \o <<"'">>]
    ELSE [err |-> FALSE, s |-> <<"\"">> \o DoubleBody(s, 1) \o <<"\"">>]

-----------------------------------------------------------------------------
(* Word splitting of a command line by the shell the quoted string is      *)
(* written for (the shell.Fields behind splitArgs): unquoted blanks         *)
(* separate words; \c, '...', "..." and $'...' quote.  An unquoted          *)
(* operator, glob, comment, keyword-free expansion or an unterminated quote *)
(* is not a plain list of words: the result is then NotWords.               *)

NotWords == [ok |-> FALSE, fields |-> << >>]

Blanks == { " ", TAB, LF }

\* characters that, unquoted, are operators, globs, comments or expansions
Unquotable == { ";", "(", ")", "|", "&", ">", "<", BQ, "#", "{", "~", "*", "?", "[", CR }

\* the character an escape letter of $'...' stands for
AnsiUnescape ==
    [ c \in { "a", "b", "f", "n", "r", "t", "v", "\\", "'", "\"" } |->
        CASE c = "a" -> BEL
          [] c = "b" -> BS
          [] c = "f" -> FF
          [] c = "n" -> LF
          [] c = "r" -> CR
          [] c = "t" -> TAB
          [] c = "v" -> VT
          [] OTHER   -> c ]

\* the byte a \xHH escape of one or two hex digits stands for, Null if the
\* model has no name for it
HexByte(h) == IF h = <<"0", "1">> \/ h = <<"1">> THEN SOH ELSE Null

RECURSIVE Sh(_, _, _, _, _, _)
\* s: the command line; i: the next index; mode: "u" unquoted, "s" in '...',
\* "d" in "...", "a" in $'...'; cur: the word being read; open: a word has
\* begun; done: the words completed so far
Sh(s, i, mode, cur, open, done) ==
    IF i > Len(s)
    THEN IF mode # "u" THEN NotWords
         ELSE [ok |-> TRUE, fields |-> IF open THEN Append(done, cur) ELSE done]
    ELSE LET c    == s[i]
             more == i < Len(s)
             nx   == IF more THEN s[i + 1] ELSE Null
         IN
         CASE mode = "u" ->
                IF c \in Blanks
                THEN Sh(s, i + 1, "u", EmptyStr, FALSE,
                        IF open THEN Append(done, cur) ELSE done)
                ELSE IF c = "\\"
                THEN IF ~more THEN NotWords
                     ELSE IF nx = LF THEN Sh(s, i + 2, "u", cur, open, done)
                     ELSE Sh(s, i + 2, "u", Append(cur, nx), TRUE, done)
                ELSE IF c = "'" THEN Sh(s, i + 1, "s", cur, TRUE, done)
                ELSE IF c = "\"" THEN Sh(s, i + 1, "d", cur, TRUE, done)
                ELSE IF c = "$"
                THEN IF nx = "'" THEN Sh(s, i + 2, "a", cur, TRUE, done)
                     ELSE IF ~more \/ nx \in Blanks
                     THEN Sh(s, i + 1, "u", Append(cur, c), TRUE, done)
                     ELSE NotWords
                ELSE IF c \in Unquotable THEN NotWords
                ELSE Sh(s, i + 1, "u", Append(cur, c), TRUE, done)
           [] mode = "s" ->
                IF c = "'" THEN Sh(s, i + 1, "u", cur, open, done)
                ELSE Sh(s, i + 1, "s", Append(cur, c), open, done)
           [] mode = "d" ->
                IF c = "\"" THEN Sh(s, i + 1, "u", cur, open, done)
                ELSE IF c = "\\"
                THEN IF ~more THEN NotWords
                     ELSE IF nx \in { "$", BQ, "\"", "\\" }
                     THEN Sh(s, i + 2, "d", Append(cur, nx), open, done)
                     ELSE IF nx = LF THEN Sh(s, i + 2, "d", cur, open, done)
                     ELSE Sh(s, i + 1, "d", Append(cur, c), open, done)
                ELSE IF c = BQ THEN NotWords
                ELSE IF c = "$"
                THEN IF ~more \/ nx \in Blanks \cup { "\"" }
                     THEN Sh(s, i + 1, "d", Append(cur, c), open, done)
                     ELSE NotWords
                ELSE Sh(s, i + 1, "d", Append(cur, c), open, done)
           [] mode = "a" ->
                IF c = "'" THEN Sh(s, i + 1, "u", cur, open, done)
                ELSE IF c = "\\"
                THEN IF ~more THEN NotWords
                     ELSE IF nx \in DOMAIN AnsiUnescape
                     THEN Sh(s, i + 2, "a", Append(cur, AnsiUnescape[nx]), open, done)
                     ELSE IF nx = "x"
                     THEN LET n == IF i + 3 <= Len(s) /\ isHex(s[i + 2]) /\ isHex(s[i + 3])
                                   THEN 2
                                   ELSE IF i + 2 <= Len(s) /\ isHex(s[i + 2]) THEN 1
                                   ELSE 0
                              b == HexByte(SubSeq(s, i + 2, i + 1 + n))
                          IN IF n = 0 \/ b = Null THEN NotWords
                             ELSE Sh(s, i + 2 + n, "a", Append(cur, b), open, done)
                     ELSE Sh(s, i + 2, "a", cur \o <<c, nx>>, open, done)
                ELSE Sh(s, i + 1, "a", Append(cur, c), open, done)

\* the words a shell reads from the command line s
ShellFields(s) == Sh(s, 1, "u", EmptyStr, FALSE, << >>)

-----------------------------------------------------------------------------
(* github.com/spf13/pflag v1.0.5: FlagSet.Parse.                            *)
(* A flag set is [formal, interspersed, errorHandling, argsLenAtDash].      *)

\* the flags Task registers on its local flag set, with the variable each sets
TaskFlags ==
    {
      [var |-> "versionFlag", name |-> <<"v", "e", "r", "s", "i", "o", "n">>,
       shorthand |-> "", kind |-> "bool"],
      [var |-> "helpFlag", name |-> <<"h", "e", "l", "p">>,
       shorthand |-> "h", kind |-> "bool"],
      [var |-> "init", name |-> <<"i", "n", "i", "t">>,
       shorthand |-> "i", kind |-> "bool"],
      [var |-> "list", name |-> <<"l", "i", "s", "t">>,
       shorthand |-> "l", kind |-> "bool"],
      [var |-> "listAll", name |-> <<"l", "i", "s", "t", "-", "a", "l", "l">>,
       shorthand |-> "a", kind |-> "bool"],
      [var |-> "status", name |-> <<"s", "t", "a", "t", "u", "s">>,
       shorthand |-> "", kind |-> "bool"],
      [var |-> "force", name |-> <<"f", "o", "r", "c", "e">>,
       shorthand |-> "f", kind |-> "bool"],
      [var |-> "watch", name |-> <<"w", "a", "t", "c", "h">>,
       shorthand |-> "w", kind |-> "bool"],
      [var |-> "verbose", name |-> <<"v", "e", "r", "b", "o", "s", "e">>,
       shorthand |-> "v", kind |-> "bool"],
      [var |-> "silent", name |-> <<"s", "i", "l", "e", "n", "t">>,
       shorthand |-> "s", kind |-> "bool"],
      [var |-> "parallel", name |-> <<"p", "a", "r", "a", "l", "l", "e", "l">>,
       shorthand |-> "p", kind |-> "bool"],
      [var |-> "dry", name |-> <<"d", "r", "y">>,
       shorthand |-> "n", kind |-> "bool"],
      [var |-> "summary", name |-> <<"s", "u", "m", "m", "a", "r", "y">>,
       shorthand |-> "", kind |-> "bool"],
      [var |-> "exitCode", name |-> <<"e", "x", "i", "t", "-", "c", "o", "d", "e">>,
       shorthand |-> "x", kind |-> "bool"],
      [var |-> "dir", name |-> <<"d", "i", "r">>,
       shorthand |-> "d", kind |-> "string"],
      [var |-> "entrypoint", name |-> <<"t", "a", "s", "k", "f", "i", "l", "e">>,
       shorthand |-> "t", kind |-> "string"],
      [var |-> "outputName", name |-> <<"o", "u", "t", "p", "u", "t">>,
       shorthand |-> "o", kind |-> "string"],
      [var |-> "outputGroupBegin", name |-> <<"o", "u", "t", "p", "u", "t", "-", "g", "r", "o", "u", "p", "-", "b", "e", "g", "i", "n">>,
       shorthand |-> "", kind |-> "string"],
      [var |-> "outputGroupEnd", name |-> <<"o", "u", "t", "p", "u", "t", "-", "g", "r", "o", "u", "p", "-", "e", "n", "d">>,
       shorthand |-> "", kind |-> "string"],
      [var |-> "color", name |-> <<"c", "o", "l", "o", "r">>,
       shorthand |-> "c", kind |-> "bool"],
      [var |-> "concurrency", name |-> <<"c", "o", "n", "c", "u", "r", "r", "e", "n", "c", "y">>,
       shorthand |-> "C", kind |-> "int"],
      [var |-> "interval", name |-> <<"i", "n", "t", "e", "r", "v", "a", "l">>,
       shorthand |-> "I", kind |-> "string"]
    }

\* the values of Task's flag variables before Parse: the registered defaults
FlagDefaults ==
    [
      versionFlag |-> FALSE,
      helpFlag |-> FALSE,
      init |-> FALSE,
      list |-> FALSE,
      listAll |-> FALSE,
      status |-> FALSE,
      force |-> FALSE,
      watch |-> FALSE,
      verbose |-> FALSE,
      silent |-> FALSE,
      parallel |-> FALSE,
      dry |-> FALSE,
      summary |-> FALSE,
      exitCode |-> FALSE,
      dir |-> EmptyStr,
      entrypoint |-> EmptyStr,
      outputName |-> EmptyStr,
      outputGroupBegin |-> EmptyStr,
      outputGroupEnd |-> EmptyStr,
      color |-> TRUE,
      concurrency |-> 0,
      interval |-> <<"5", "s">>
    ]

\* pflags := pflag.FlagSet{}: the zero value, so errorHandling is
\* ContinueOnError (the first constant), interspersed is false and
\* argsLenAtDash is 0
LocalFlagSet ==
    [formal |-> TaskFlags, interspersed |-> FALSE,
     errorHandling |-> "ContinueOnError", argsLenAtDash |-> 0]

\* pflag.CommandLine = NewFlagSet(os.Args[0], ExitOnError); Task registers
\* no flag on it
GlobalFlagSet ==
    [formal |-> {}, interspersed |-> TRUE,
     errorHandling |-> "ExitOnError", argsLenAtDash |-> -1]

NoErr == "nil"

TrueStrs ==
    { <<"1">>, <<"t">>, <<"T">>, <<"T", "R", "U", "E">>,
      <<"t", "r", "u", "e">>, <<"T", "r", "u", "e">> }

FalseStrs ==
    { <<"0">>, <<"f">>, <<"F">>, <<"F", "A", "L", "S", "E">>,
      <<"f", "a", "l", "s", "e">>, <<"F", "a", "l", "s", "e">> }

Digits == <<"0", "1", "2", "3", "4", "5", "6", "7", "8", "9">>

DigitVal(c) == (CHOOSE i \in 1..Len(Digits) : Digits[i] = c) - 1

RECURSIVE Atoi(_, _)
\* the value of a string of decimal digits, acc the value read so far
Atoi(s, acc) ==
    IF s = EmptyStr THEN acc ELSE Atoi(Tail(s), (10 * acc) + DigitVal(Head(s)))

\* Value.Set of the flag's type: strconv.ParseBool for a bool, the string
\* itself for a string, strconv.ParseInt for an int (decimal literals; the
\* prefixed literals of base 0 are not among the inputs drawn)
SetFlag(flag, value, st) ==
    CASE flag.kind = "bool" ->
           IF value \in TrueStrs THEN [st EXCEPT !.values[flag.var] = TRUE]
           ELSE IF value \in FalseStrs THEN [st EXCEPT !.values[flag.var] = FALSE]
           ELSE [st EXCEPT !.err = "invalid argument"]
      [] flag.kind = "string" -> [st EXCEPT !.values[flag.var] = value]
      [] flag.kind = "int" ->
           IF value # EmptyStr
              /\ (\A i \in 1..Len(value) : \E d \in 1..Len(Digits) : Digits[d] = value[i])
              /\ (Len(value) = 1 \/ value[1] # "0")
           THEN [st EXCEPT !.values[flag.var] = Atoi(value, 0)]
           ELSE [st EXCEPT !.err = "invalid argument"]

\* FlagSet.failf: usage is printed unless errorHandling is ContinueOnError
Failf(fs, st, msg) ==
    [st EXCEPT !.err = msg,
               !.usage = @ \/ fs.errorHandling # "ContinueOnError"]

\* bool flags have NoOptDefVal "true"
NoOptDefVal(flag) == IF flag.kind = "bool" THEN <<"t", "r", "u", "e">> ELSE EmptyStr

\* FlagSet.parseLongArg(s, args, fn): [a, st]
ParseLongArg(fs, s, a, st) ==
    LET name0 == SubSeq(s, 3, Len(s))
        eq    == IndexOf(name0, "=")
        name  == IF eq = 0 THEN name0 ELSE SubSeq(name0, 1, eq - 1)
        found == { f \in fs.formal : f.name = name }
    IN
    IF Len(name0) = 0 \/ name0[1] = "-" \/ name0[1] = "="
    THEN [a |-> a, st |-> Failf(fs, st, "bad flag syntax")]
    ELSE IF found = {}
    THEN IF name = <<"h", "e", "l", "p">>
         THEN [a |-> a, st |-> [st EXCEPT !.err = "ErrHelp", !.usage = TRUE]]
         ELSE [a |-> a, st |-> Failf(fs, st, "unknown flag")]
    ELSE LET flag == CHOOSE f \in found : TRUE IN
         IF eq # 0
         THEN [a |-> a, st |-> SetFlag(flag, SubSeq(name0, eq + 1, Len(name0)), st)]
         ELSE IF NoOptDefVal(flag) # EmptyStr
         THEN [a |-> a, st |-> SetFlag(flag, NoOptDefVal(flag), st)]
         ELSE IF Len(a) > 0
         THEN [a |-> Tail(a), st |-> SetFlag(flag, Head(a), st)]
         ELSE [a |-> a, st |-> Failf(fs, st, "flag needs an argument")]

\* FlagSet.parseSingleShortArg(shorthands, args, fn): [outShorts, outArgs, st]
ParseSingleShortArg(fs, shorthands, args, st) ==
    LET c     == shorthands[1]
        rest  == Tail(shorthands)
        found == { f \in fs.formal : f.shorthand = c }
    IN
    IF Len(shorthands) >= 5 /\ SubSeq(shorthands, 1, 5) = <<"t", "e", "s", "t", ".">>
    THEN [outShorts |-> EmptyStr, outArgs |-> args, st |-> st]
    ELSE IF found = {}
    THEN IF c = "h"
         THEN [outShorts |-> rest, outArgs |-> args,
               st |-> [st EXCEPT !.err = "ErrHelp", !.usage = TRUE]]
         ELSE [outShorts |-> rest, outArgs |-> args,
               st |-> Failf(fs, st, "unknown shorthand flag")]
    ELSE LET flag == CHOOSE f \in found : TRUE IN
         IF Len(shorthands) > 2 /\ shorthands[2] = "="
         THEN [outShorts |-> EmptyStr, outArgs |-> args,
               st |-> SetFlag(flag, SubSeq(shorthands, 3, Len(shorthands)), st)]
         ELSE IF NoOptDefVal(flag) # EmptyStr
         THEN [outShorts |-> rest, outArgs |-> args,
               st |-> SetFlag(flag, NoOptDefVal(flag), st)]
         ELSE IF Len(shorthands) > 1
         THEN [outShorts |-> EmptyStr, outArgs |-> args, st |-> SetFlag(flag, rest, st)]
         ELSE IF Len(args) > 0
         THEN [outShorts |-> rest, outArgs |-> Tail(args),
               st |-> SetFlag(flag, Head(args), st)]
         ELSE [outShorts |-> rest, outArgs |-> args,
               st |-> Failf(fs, st, "flag needs an argument")]

RECURSIVE ShortLoop(_, _, _, _, _)
\* the loop of FlagSet.parseShortArg: every iteration is handed args, the
\* arguments as they were on entry; a is the result of the last iteration
ShortLoop(fs, shorthands, args, a, st) ==
    IF shorthands = EmptyStr THEN [a |-> a, st |-> st]
    ELSE LET r == ParseSingleShortArg(fs, shorthands, args, st) IN
         IF r.st.err # NoErr THEN [a |-> r.outArgs, st |-> r.st]
         ELSE ShortLoop(fs, r.outShorts, args, r.outArgs, r.st)

ParseShortArg(fs, s, args, st) == ShortLoop(fs, Tail(s), args, args, st)

RECURSIVE ParseArgs(_, _, _)
\* FlagSet.parseArgs(args, fn)
ParseArgs(fs, args, st) ==
    IF args = << >> THEN st
    ELSE LET s    == Head(args)
             rest == Tail(args)
         IN
         IF Len(s) = 0 \/ s[1] # "-" \/ Len(s) = 1
         THEN IF ~fs.interspersed
              THEN [st EXCEPT !.args = (st.args \o <<s>>) \o rest]
              ELSE ParseArgs(fs, rest, [st EXCEPT !.args = Append(@, s)])
         ELSE IF s[2] = "-"
         THEN IF Len(s) = 2
              THEN [st EXCEPT !.argsLenAtDash = Len(st.args), !.args = st.args \o rest]
              ELSE LET r == ParseLongArg(fs, s, rest, st) IN
                   IF r.st.err # NoErr THEN r.st ELSE ParseArgs(fs, r.a, r.st)
         ELSE LET r == ParseShortArg(fs, s, rest, st) IN
              IF r.st.err # NoErr THEN r.st ELSE ParseArgs(fs, r.a, r.st)

\* FlagSet.Parse(arguments): args is reset, argsLenAtDash is not; on an error
\* the process exits with code 2 unless errorHandling is ContinueOnError,
\* which returns the error to the caller
Parse(fs, values, args) ==
    LET st == ParseArgs(fs, args,
                        [args |-> << >>, argsLenAtDash |-> fs.argsLenAtDash,
                         values |-> values, err |-> NoErr, usage |-> FALSE])
    IN [args |-> st.args, argsLenAtDash |-> st.argsLenAtDash, values |-> st.values,
        err |-> st.err, usage |-> st.usage,
        exited |-> st.err # NoErr /\ fs.errorHandling = "ExitOnError"]

-----------------------------------------------------------------------------
(* task.go: getArgs.                                                        *)

\* getArgs(), reading the flag set cl = pflag.CommandLine:
\* args = pflag.Args(), doubleDashPos = pflag.CommandLine.ArgsLenAtDash()
GetArgs(cl) ==
    LET args          == cl.args
        doubleDashPos == cl.argsLenAtDash
        rest          == SubSeq(args, doubleDashPos + 1, Len(args))
        quoted        == [i \in 1..Len(rest) |-> Quote(rest[i])]
    IN
    IF doubleDashPos = -1
    THEN [tasksAndVars |-> args, cliArgs |-> EmptyStr, err |-> NoErr]
    ELSE IF \E i \in 1..Len(rest) : quoted[i].err
    THEN [tasksAndVars |-> << >>, cliArgs |-> EmptyStr, err |-> "QuoteError"]
    ELSE [tasksAndVars |-> SubSeq(args, 1, doubleDashPos),
          cliArgs |-> Join([i \in 1..Len(rest) |-> quoted[i].s], <<" ">>),
          err |-> NoErr]

-----------------------------------------------------------------------------
(* The argument vectors Task is run on.                                     *)

argVersion == <<"-", "-", "v", "e", "r", "s", "i", "o", "n">>
argHelp == <<"-", "h">>
argInit == <<"-", "-", "i", "n", "i", "t">>
argList == <<"-", "l">>
argListAll == <<"-", "-", "l", "i", "s", "t", "-", "a", "l", "l">>
argSilent == <<"-", "s">>
argStatus == <<"-", "-", "s", "t", "a", "t", "u", "s">>
argWatch == <<"-", "w">>
argExitCode == <<"-", "x">>
argWatchExit == <<"-", "w", "x">>
argDir == <<"-", "-", "d", "i", "r", "=", "d">>
argT == <<"-", "t">>
argTaskfilePath == <<"d", "/", "f">>
argGroupBegin == <<"-", "-", "o", "u", "t", "p", "u", "t", "-", "g", "r", "o", "u", "p", "-", "b", "e", "g", "i", "n", "=", "b">>
argO == <<"-", "o">>
argGroup == <<"g", "r", "o", "u", "p">>
argGroupEnd == <<"-", "-", "o", "u", "t", "p", "u", "t", "-", "g", "r", "o", "u", "p", "-", "e", "n", "d", "=", "e">>
argBogus == <<"-", "-", "b", "o", "g", "u", "s">>
argZ == <<"-", "z">>
argDash == <<"-", "-">>
argBuild == <<"b">>
argCliArgsVar == <<"C", "L", "I", "_", "A", "R", "G", "S", "=", "a">>
argPassSpace == <<"a", " ", "b">>
argPassQuote == <<"'", "$">>
argHost == <<"h">>
strCLI_ARGS == <<"C", "L", "I", "_", "A", "R", "G", "S">>

\* the seven mode flags, each spelled once, long or short
ModeFlagArgs ==
    << argVersion, argHelp, argInit, argList, argListAll, argSilent, argStatus >>

RECURSIVE Pick(_, _, _)
\* the subsequence of seq at the indices in S, from index i on
Pick(seq, S, i) ==
    IF i > Len(seq) THEN << >>
    ELSE (IF i \in S THEN <<seq[i]>> ELSE << >>) \o Pick(seq, S, i + 1)

ModeVectors == { Pick(ModeFlagArgs, S, 1) : S \in SUBSET (1..Len(ModeFlagArgs)) }

\* the other flags a vector carries: watch and exit-code, the directory and
\* taskfile flags, the output flags, and flags that are not registered
ExtraVectors ==
    { << >>,
      << argWatch >>,
      << argExitCode >>,
      << argWatchExit >>,
      << argDir >>,
      << argT, argTaskfilePath >>,
      << argDir, argT, argTaskfilePath >>,
      << argGroupBegin >>,
      << argO, argGroup, argGroupEnd >>,
      << argBogus >>,
      << argExitCode, argZ >>,
      << argBogus, argWatch >> }

\* the positional arguments: task names and variables, then pass-through
RestVectors ==
    { tasks \o pass :
        tasks \in { << >>, << argCliArgsVar, argBuild >> },
        pass  \in { << >>, << argDash >>, << argDash, argPassSpace, argPassQuote >> } }

ArgVectors ==
    { (m \o x) \o r : m \in ModeVectors, x \in ExtraVectors, r \in RestVectors }

\* the vectors the host program may have parsed with pflag.Parse() before it
\* calls Task
HostVectors == { << argHost, argDash, argPassSpace >> }

\* pflag.CommandLine as the host program leaves it: never parsed, or parsed
\* on the host's own arguments
CommandLineStates ==
    { [args |-> << >>, argsLenAtDash |-> GlobalFlagSet.argsLenAtDash] }
    \cup { LET r == Parse(GlobalFlagSet, << >>, h)
           IN [args |-> r.args, argsLenAtDash |-> r.argsLenAtDash] : h \in HostVectors }

\* the arguments of vec that follow its first "--", none when it has no "--"
AfterDash(vec) ==
    LET i == IF \E k \in 1..Len(vec) : vec[k] = argDash
             THEN CHOOSE k \in 1..Len(vec) :
                     vec[k] = argDash /\ \A j \in 1..(k - 1) : vec[j] # argDash
             ELSE Len(vec)
    IN SubSeq(vec, i + 1, Len(vec))

HasDash(vec) == \E k \in 1..Len(vec) : vec[k] = argDash

-----------------------------------------------------------------------------
(* Collaborators of Task that live outside cmd/taskmain.                    *)

\* filepath.Dir and filepath.Base of a slash-separated path without ".",
\* ".." or doubled separators
FilepathDir(p) ==
    LET i == LastIndexOf(p, "/") IN
    IF i = 0 THEN <<".">> ELSE IF i = 1 THEN <<"/">> ELSE SubSeq(p, 1, i - 1)

FilepathBase(p) ==
    IF p = EmptyStr THEN <<".">> ELSE SubSeq(p, LastIndexOf(p, "/") + 1, Len(p))

\* the variable a KEY=VALUE token assigns
VarName(tok) == SubSeq(tok, 1, IndexOf(tok, "=") - 1)

VarValue(tok) == SubSeq(tok, IndexOf(tok, "=") + 1, Len(tok))

IsAssignment(tok) == Contains(tok, "=")

RECURSIVE Assignments(_)
\* the variable set the assignments among toks build, a later one winning
Assignments(toks) ==
    IF toks = << >> THEN << >>
    ELSE LET first == Assignments(SubSeq(toks, 1, Len(toks) - 1))
             tok   == toks[Len(toks)]
         IN IF IsAssignment(tok)
            THEN [n \in (DOMAIN first) \cup { VarName(tok) } |->
                     IF n = VarName(tok) THEN VarValue(tok) ELSE first[n]]
            ELSE first

\* args.ParseV3: every token without "=" is a task name, the assignments
\* are globals
ParseV3(toks) ==
    [calls   |-> SelectSeq(toks, LAMBDA tok : ~IsAssignment(tok)),
     globals |-> Assignments(toks)]

\* args.ParseV2: only the first token is a task name, the tokens after it
\* are assignments and apply as globals
ParseV2(toks) ==
    [calls   |-> IF toks = << >> \/ IsAssignment(toks[1]) THEN << >> ELSE << toks[1] >>,
     globals |-> Assignments(toks)]

\* Vars.Set(name, value)
VarsSet(vs, name, value) ==
    [n \in (DOMAIN vs) \cup { name } |-> IF n = name THEN value ELSE vs[n]]

\* Vars.Merge(other): keys already present are kept
VarsMerge(vs, other) ==
    [n \in (DOMAIN vs) \cup (DOMAIN other) |-> IF n \in DOMAIN vs THEN vs[n] ELSE other[n]]

\* the variables a loaded taskfile declares
TaskfileVarSets == { << >>, [n \in { strCLI_ARGS } |-> argHost] }

\* the schema versions ParsedVersion returns
Versions == { 2, 3 }

\* the largest exit code a failed command of a task is given in the model
MaxExitCode == 2

\* what Run returns: nil, a *TaskRunError with its exit code, another error
RunResults ==
    { [kind |-> "nil", code |-> 0], [kind |-> "error", code |-> 0] }
    \cup { [kind |-> "TaskRunError", code |-> c] : c \in 1..MaxExitCode }

-----------------------------------------------------------------------------
(* task.go: Task(arguments).  pc is "Task" on entry, "parsed" after         *)
(* pflags.Parse, "executor" once the Executor is built, "loaded" after      *)
(* Setup and ParsedVersion, "calls" once the calls are built, "dispatch"    *)
(* after the interrupt handler is decided, "Done" when Task has returned or *)
(* the process has exited.                                                  *)

\* the conditions of Task's if statements
VersionCond(o) == o.versionFlag

HelpCond(o) == o.helpFlag

InitCond(o) == o.init

\* a mutation of BothDirAndTaskfile: the check is never taken
NeverBothDirAndTaskfile(o) == FALSE

BothDirAndTaskfile(o) == o.dir # EmptyStr /\ o.entrypoint # EmptyStr

GroupBeginWithoutGroup(o) == o.outputName # argGroup /\ o.outputGroupBegin # EmptyStr

GroupEndWithoutGroup(o) == o.outputName # argGroup /\ o.outputGroupEnd # EmptyStr

\* a mutation of ListNamesCond: list-all with silent is not recognised
ListNamesCondListOnly(o) == o.list /\ o.silent

ListNamesCond(o) == (o.list \/ o.listAll) /\ o.silent

\* a mutation of ListCond: the list branch is taken for list-all too
ListCondEither(o) == o.list \/ o.listAll

ListCond(o) == o.list

ListAllCond(o) == o.listAll

\* a mutation of InterceptCond: the handler is installed in watch mode too
InterceptCondAlways(o) == TRUE

InterceptCond(o) == ~o.watch

StatusCond(o) == o.status

\* a mutation of RunExitCode: the error's exit code is passed whether or not
\* the exit-code flag is set
RunExitCodeAlways(o, res) ==
    IF res.kind = "nil" THEN 0
    ELSE IF res.kind = "TaskRunError" THEN res.code
    ELSE 1

\* the exit code after e.Run returned res
RunExitCode(o, res) ==
    IF res.kind = "nil" THEN 0
    ELSE IF o.exitCode /\ res.kind = "TaskRunError" THEN res.code
    ELSE 1

Log(ev) == trace' = Append(trace, ev)

\* the messages log.Fatal is called with
FatalEvents ==
    { "Fatal: os.Getwd", "Fatal: InitTaskfile", "Fatal: both --dir and --taskfile",
      "Fatal: --output-group-begin without --output=group",
      "Fatal: --output-group-end without --output=group",
      "Fatal: Setup", "Fatal: ParsedVersion", "Fatal: getArgs", "Fatal: Status" }

\* log.Fatal: the message is written and the process exits with code 1
Fatal(evs, msg) == trace' = (trace \o evs) \o <<msg>> /\ exit' = 1 /\ pc' = "Done"

\* return from Task
Return(evs) == trace' = trace \o evs /\ exit' = exit /\ pc' = "Done"

InitFuncsIdle ==
    /\ sprigFuncs = << >>
    /\ taskFuncs = << >>
    /\ templateFuncs = << >>
    /\ pending = {}
    /\ initRuns = 0
    /\ looked = << >>

\* the locals of Task before its first statement
InitLocals ==
    /\ pflags = [args |-> << >>, argsLenAtDash |-> LocalFlagSet.argsLenAtDash,
                 err |-> NoErr]
    /\ opts = FlagDefaults
    /\ parsed = FlagDefaults
    /\ e = << >>
    /\ v = 0
    /\ tasksAndVars = << >>
    /\ cliArgs = EmptyStr
    /\ calls = << >>
    /\ globals = << >>
    /\ builder = [name |-> "none", tokens |-> << >>]
    /\ err = NoErr
    /\ runErr = [kind |-> "none", code |-> 0]
    /\ taskfileVars = << >>
    /\ trace = << >>
    /\ exit = 0

Init ==
    /\ pc = "Task"
    /\ CommandLine \in CommandLineStates
    /\ arguments \in ArgVectors
    /\ InitLocals
    /\ InitFuncsIdle

\* lines 51-102: the flags are registered and pflags.Parse(arguments) runs;
\* its error result is discarded
ParseFlags ==
    /\ pc = "Task"
    /\ LET r == Parse(LocalFlagSet, FlagDefaults, arguments) IN
         /\ pflags' = [args |-> r.args, argsLenAtDash |-> r.argsLenAtDash, err |-> r.err]
         /\ opts' = r.values
         /\ parsed' = r.values
         /\ trace' = trace \o (IF r.usage THEN <<"Usage">> ELSE << >>)
         /\ IF r.exited THEN exit' = 2 /\ pc' = "Done"
                        ELSE exit' = exit /\ pc' = "parsed"
    /\ UNCHANGED << arguments, CommandLine, e, v, tasksAndVars, cliArgs, calls,
                    globals, builder, err, runErr, taskfileVars >>
    /\ UNCHANGED funcVars

\* lines 104-107
ShowVersion ==
    /\ pc = "parsed"
    /\ VersionCond(opts)
    /\ Return(<<"PrintVersion">>)
    /\ UNCHANGED << arguments, CommandLine, pflags, opts, parsed, e, v, tasksAndVars,
                    cliArgs, calls, globals, builder, err, runErr, taskfileVars >>
    /\ UNCHANGED funcVars

\* lines 109-112
ShowHelp ==
    /\ pc = "parsed"
    /\ ~VersionCond(opts)
    /\ HelpCond(opts)
    /\ Return(<<"Usage">>)
    /\ UNCHANGED << arguments, CommandLine, pflags, opts, parsed, e, v, tasksAndVars,
                    cliArgs, calls, globals, builder, err, runErr, taskfileVars >>
    /\ UNCHANGED funcVars

\* lines 114-123: os.Getwd, then task.InitTaskfile
InitTaskfile ==
    /\ pc = "parsed"
    /\ ~VersionCond(opts)
    /\ ~HelpCond(opts)
    /\ InitCond(opts)
    /\ \E outcome \in { "ok", "getwd fails", "init fails" } :
         CASE outcome = "getwd fails" -> Fatal(<< >>, "Fatal: os.Getwd") /\ err' = "GetwdError"
           [] outcome = "init fails"  -> Fatal(<<"InitTaskfile">>, "Fatal: InitTaskfile") /\ err' = "InitError"
           [] outcome = "ok"          -> Return(<<"InitTaskfile">>) /\ err' = NoErr
    /\ UNCHANGED << arguments, CommandLine, pflags, opts, parsed, e, v, tasksAndVars,
                    cliArgs, calls, globals, builder, runErr, taskfileVars >>
    /\ UNCHANGED funcVars

\* lines 125-164: the flag combinations are checked, the directory and the
\* entry point are derived, the Executor is built
BuildExecutor ==
    /\ pc = "parsed"
    /\ ~VersionCond(opts)
    /\ ~HelpCond(opts)
    /\ ~InitCond(opts)
    /\ IF BothDirAndTaskfile(opts)
          \/ GroupBeginWithoutGroup(opts)
          \/ GroupEndWithoutGroup(opts)
       THEN /\ Fatal(<< >>,
                     IF BothDirAndTaskfile(opts)
                     THEN "Fatal: both --dir and --taskfile"
                     ELSE IF GroupBeginWithoutGroup(opts)
                     THEN "Fatal: --output-group-begin without --output=group"
                     ELSE "Fatal: --output-group-end without --output=group")
            /\ UNCHANGED << opts, e >>
       ELSE /\ opts' = IF opts.entrypoint # EmptyStr
                       THEN [opts EXCEPT !.dir = FilepathDir(opts.entrypoint),
                                         !.entrypoint = FilepathBase(opts.entrypoint)]
                       ELSE opts
            /\ e' = [Force |-> opts.force, Watch |-> opts.watch,
                     Verbose |-> opts.verbose, Silent |-> opts.silent,
                     Dir |-> opts'.dir, Dry |-> opts.dry,
                     Entrypoint |-> opts'.entrypoint, Summary |-> opts.summary,
                     Parallel |-> opts.parallel, Color |-> opts.color,
                     Concurrency |-> opts.concurrency, Interval |-> opts.interval,
                     OutputStyle |-> [Name |-> opts.outputName,
                                      Begin |-> opts.outputGroupBegin,
                                      End |-> opts.outputGroupEnd]]
            /\ pc' = "executor"
            /\ UNCHANGED << trace, exit >>
    /\ UNCHANGED << arguments, CommandLine, pflags, parsed, v, tasksAndVars, cliArgs,
                    calls, globals, builder, err, runErr, taskfileVars >>
    /\ UNCHANGED funcVars

\* what e.ListTaskNames does: it prints the names, or reports that there
\* is nothing to list; either way it returns to Task
ListTaskNamesOutcomes == { << >>, <<"PrintNoTasks">> }

\* lines 166-169: e.ListTaskNames(listAll), then return
ListTaskNames ==
    /\ pc = "executor"
    /\ ListNamesCond(opts)
    /\ \E printed \in ListTaskNamesOutcomes : Return(<<"ListTaskNames">> \o printed)
    /\ UNCHANGED << arguments, CommandLine, pflags, opts, parsed, e, v, tasksAndVars,
                    cliArgs, calls, globals, builder, err, runErr, taskfileVars >>
    /\ UNCHANGED funcVars

\* lines 171-178: e.Setup(), then e.Taskfile.ParsedVersion()
Setup ==
    /\ pc = "executor"
    /\ ~ListNamesCond(opts)
    /\ \/ /\ Fatal(<<"Setup">>, "Fatal: Setup")
          /\ err' = "TaskfileLoadError"
          /\ UNCHANGED << v, taskfileVars >>
       \/ /\ Fatal(<<"Setup", "ParsedVersion">>, "Fatal: ParsedVersion")
          /\ err' = "VersionError"
          /\ taskfileVars' \in TaskfileVarSets
          /\ UNCHANGED v
       \/ /\ trace' = trace \o <<"Setup", "ParsedVersion">>
          /\ err' = NoErr
          /\ v' \in Versions
          /\ taskfileVars' \in TaskfileVarSets
          /\ pc' = "loaded"
          /\ UNCHANGED exit
    /\ UNCHANGED << arguments, CommandLine, pflags, opts, parsed, e, tasksAndVars,
                    cliArgs, calls, globals, builder, runErr >>
    /\ UNCHANGED funcVars

\* lines 180-186: e.ListTasks(FilterOutInternal, FilterOutNoDesc)
ListTasks ==
    /\ pc = "loaded"
    /\ ListCond(opts)
    /\ \E ok \in BOOLEAN :
         Return(IF ok THEN <<"ListTasks">> ELSE <<"ListTasks", "PrintListAllHint">>)
    /\ UNCHANGED << arguments, CommandLine, pflags, opts, parsed, e, v, tasksAndVars,
                    cliArgs, calls, globals, builder, err, runErr, taskfileVars >>
    /\ UNCHANGED funcVars

\* lines 188-194: e.ListTasks(FilterOutInternal)
ListAllTasks ==
    /\ pc = "loaded"
    /\ ~ListCond(opts)
    /\ ListAllCond(opts)
    /\ \E ok \in BOOLEAN :
         Return(IF ok THEN <<"ListAllTasks">> ELSE <<"ListAllTasks", "PrintNoTasks">>)
    /\ UNCHANGED << arguments, CommandLine, pflags, opts, parsed, e, v, tasksAndVars,
                    cliArgs, calls, globals, builder, err, runErr, taskfileVars >>
    /\ UNCHANGED funcVars

\* lines 196-213: getArgs(), the call builder of the parsed version,
\* globals.Set("CLI_ARGS", ...), e.Taskfile.Vars.Merge(globals)
BuildCalls ==
    /\ pc = "loaded"
    /\ ~ListCond(opts)
    /\ ~ListAllCond(opts)
    /\ LET r      == GetArgs(CommandLine)
           built  == IF v >= 3 THEN ParseV3(r.tasksAndVars) ELSE ParseV2(r.tasksAndVars)
           merged == VarsSet(built.globals, strCLI_ARGS, r.cliArgs)
       IN
       /\ err' = r.err
       /\ tasksAndVars' = r.tasksAndVars
       /\ cliArgs' = r.cliArgs
       /\ IF r.err # NoErr
          THEN /\ Fatal(<< >>, "Fatal: getArgs")
               /\ UNCHANGED << calls, globals, builder, taskfileVars >>
          ELSE /\ builder' = [name |-> IF v >= 3 THEN "ParseV3" ELSE "ParseV2",
                              tokens |-> r.tasksAndVars]
               /\ calls' = built.calls
               /\ globals' = merged
               /\ taskfileVars' = VarsMerge(taskfileVars, merged)
               /\ pc' = "calls"
               /\ UNCHANGED << trace, exit >>
    /\ UNCHANGED << arguments, CommandLine, pflags, opts, parsed, e, v, runErr >>
    /\ UNCHANGED funcVars

\* lines 215-217
Intercept ==
    /\ pc = "calls"
    /\ IF InterceptCond(opts) THEN Log("InterceptInterruptSignals") ELSE UNCHANGED trace
    /\ pc' = "dispatch"
    /\ UNCHANGED << arguments, CommandLine, pflags, opts, parsed, e, v, tasksAndVars,
                    cliArgs, calls, globals, builder, err, runErr, taskfileVars, exit >>
    /\ UNCHANGED funcVars

\* lines 221-226: e.Status(ctx, calls...)
Status ==
    /\ pc = "dispatch"
    /\ StatusCond(opts)
    /\ \/ Fatal(<<"Status">>, "Fatal: Status") /\ err' = "StatusError"
       \/ Return(<<"Status">>) /\ err' = NoErr
    /\ UNCHANGED << arguments, CommandLine, pflags, opts, parsed, e, v, tasksAndVars,
                    cliArgs, calls, globals, builder, runErr, taskfileVars >>
    /\ UNCHANGED funcVars

\* lines 228-238: e.Run(ctx, calls...) and the exit code
Run ==
    /\ pc = "dispatch"
    /\ ~StatusCond(opts)
    /\ \E res \in RunResults :
         /\ err' = res.kind
         /\ runErr' = res
         /\ trace' = Append(trace, "Run")
         /\ exit' = RunExitCode(opts, res)
         /\ pc' = "Done"
    /\ UNCHANGED << arguments, CommandLine, pflags, opts, parsed, e, v, tasksAndVars,
                    cliArgs, calls, globals, builder, taskfileVars >>
    /\ UNCHANGED funcVars

Next ==
    \/ ParseFlags
    \/ ShowVersion
    \/ ShowHelp
    \/ InitTaskfile
    \/ BuildExecutor
    \/ ListTaskNames
    \/ Setup
    \/ ListTasks
    \/ ListAllTasks
    \/ BuildCalls
    \/ Intercept
    \/ Status
    \/ Run

Spec == Init /\ [][Next]_vars

-----------------------------------------------------------------------------
(* Properties of Task.                                                      *)

Occurs(ev) == \E i \in 1..Len(trace) : trace[i] = ev

Count(ev) == Cardinality({ i \in 1..Len(trace) : trace[i] = ev })

\* the terminal actions of the mode dispatcher
TerminalEvents ==
    { "PrintVersion", "Usage", "InitTaskfile", "ListTaskNames", "ListTasks",
      "ListAllTasks", "Status", "Run" }

\* the collaborator actions that touch files
FileEvents ==
    { "InitTaskfile", "ListTaskNames", "Setup", "ParsedVersion", "ListTasks",
      "ListAllTasks", "Status", "Run" }

Invoked == SelectSeq(trace, LAMBDA ev : ev \in TerminalEvents)

\* the terminal action the precedence order of the dispatcher selects
FirstMatch(o) ==
    IF o.versionFlag \/ o.helpFlag THEN { "PrintVersion", "Usage" }
    ELSE IF o.init THEN { "InitTaskfile" }
    ELSE IF (o.list \/ o.listAll) /\ o.silent THEN { "ListTaskNames" }
    ELSE IF o.list THEN { "ListTasks" }
    ELSE IF o.listAll THEN { "ListAllTasks" }
    ELSE IF o.status THEN { "Status" }
    ELSE { "Run" }

\* C1: in every invocation at most one terminal action (print version, print
\* usage, InitTaskfile, ListTaskNames, ListTasks, Status, Run) is invoked, and
\* the one invoked is the first whose condition holds in the order
\* help/version, init, (list or list-all) and silent, list, list-all, status,
\* run; an invocation that ends without a fatal error has invoked one.
C1_AtMostOneTerminalAction ==
    /\ Len(Invoked) <= 1
    /\ Len(Invoked) = 1 => Invoked[1] \in FirstMatch(parsed)
    /\ (pc = "Done" /\ \A ev \in FatalEvents : ~Occurs(ev)) => Len(Invoked) = 1

C1_Witness ==
    /\ pc = "Done"
    /\ parsed.list /\ parsed.listAll /\ parsed.status /\ ~parsed.silent
    /\ Invoked = <<"ListTasks">>

\* the flags as an argument vector spells them
SetsDirAndTaskfile(vec) ==
    (\E i \in 1..Len(vec) : vec[i] = argDir) /\ (\E i \in 1..Len(vec) : vec[i] = argT)

SetsShortCircuit(vec) ==
    \E i \in 1..Len(vec) : vec[i] \in { argVersion, argHelp, argInit }

\* what the invalid-flag-combination failure looks like: no collaborator
\* action that touches files has run, and once Task has ended it ended in the
\* fatal error about --dir and --taskfile
FailsOnDirAndTaskfile ==
    /\ \A ev \in FileEvents : ~Occurs(ev)
    /\ pc = "Done" =>
         /\ trace = <<"Fatal: both --dir and --taskfile">>
         /\ exit = 1

HasUnregisteredFlag(vec) == \E i \in 1..Len(vec) : vec[i] \in { argBogus, argZ }

\* the collaborator actions of Task
CollaboratorEvents == FileEvents \cup { "InterceptInterruptSignals" }

\* C3: on a vector with a flag that is not registered, Task ends where the
\* flags are parsed, with a non-zero exit code after printing usage, and has
\* invoked no collaborator: it never goes on with the flags parsed so far.
C3_AsClaimed ==
    HasUnregisteredFlag(arguments) =>
        /\ pc \in { "Task", "Done" }
        /\ \A ev \in CollaboratorEvents : ~Occurs(ev)
        /\ pc = "Done" => exit # 0 /\ Occurs("Usage")

\* a flag set made as pflag.NewFlagSet makes it, with the flags of Task:
\* what the positional arguments and the separator of a vector are
PositionalsOf(vec) ==
    Parse([formal |-> TaskFlags, interspersed |-> TRUE,
           errorHandling |-> "ContinueOnError",
           argsLenAtDash |-> GlobalFlagSet.argsLenAtDash],
          FlagDefaults, vec)

\* C4: the tokens handed to ParseV3 or ParseV2 are the positional arguments
\* of Task's own argument vector that precede "--", and the pass-through
\* string is built from those that follow it.
C4_AsClaimed ==
    builder.name # "none" =>
        LET want == GetArgs(PositionalsOf(arguments)) IN
        /\ builder.tokens = want.tasksAndVars
        /\ cliArgs = want.cliArgs

\* C5: in run mode the exit code is 0 exactly when Run returns no error; when
\* Run fails it is the error's exit code if the exit-code flag is set and the
\* error is a TaskRunError, and 1 otherwise.
C5_RunExitCode ==
    Occurs("Run") =>
        /\ exit = 0 <=> runErr.kind = "nil"
        /\ runErr.kind # "nil" =>
             exit = IF parsed.exitCode /\ runErr.kind = "TaskRunError"
                    THEN runErr.code
                    ELSE 1

C5_Witness ==
    /\ Occurs("Run")
    /\ parsed.exitCode
    /\ runErr.kind = "TaskRunError"
    /\ exit = MaxExitCode

\* ev occurs in the trace, and a occurs before its first occurrence
Before(a, ev) ==
    \A i \in 1..Len(trace) : trace[i] = ev => \E j \in 1..(i - 1) : trace[j] = a

\* C6: InterceptInterruptSignals is called at most once, never with watch
\* set, before every Status or Run made with watch unset, and not on the
\* help, version, init and list paths.
C6_Intercept ==
    /\ Count("InterceptInterruptSignals") <= 1
    /\ parsed.watch => ~Occurs("InterceptInterruptSignals")
    /\ ~parsed.watch =>
         /\ Before("InterceptInterruptSignals", "Status")
         /\ Before("InterceptInterruptSignals", "Run")
    /\ (\E ev \in TerminalEvents \ { "Status", "Run" } : Occurs(ev))
         => ~Occurs("InterceptInterruptSignals")

C6_Witness ==
    /\ ~parsed.watch
    /\ parsed.status
    /\ trace = <<"Setup", "ParsedVersion", "InterceptInterruptSignals", "Status">>

\* the pass-through string of a vector: every argument after "--" quoted,
\* joined by single spaces, empty without "--"
PassThroughOf(vec) ==
    LET rest == AfterDash(vec) IN
    IF HasDash(vec)
    THEN Join([i \in 1..Len(rest) |-> Quote(rest[i]).s], <<" ">>)
    ELSE EmptyStr

\* C7: whenever Status or Run is invoked, CLI_ARGS in the merged globals is
\* the re-quoted pass-through string of the argument vector, and is empty
\* when the vector has no "--".
C7_AsClaimed ==
    (Occurs("Status") \/ Occurs("Run")) =>
        /\ strCLI_ARGS \in DOMAIN globals
        /\ globals[strCLI_ARGS] = PassThroughOf(arguments)

\* an invalid combination of flags, as pflags.Parse left them
InvalidCombination(o) ==
    \/ o.dir # EmptyStr /\ o.entrypoint # EmptyStr
    \/ o.outputName # argGroup
       /\ (o.outputGroupBegin # EmptyStr \/ o.outputGroupEnd # EmptyStr)

-----------------------------------------------------------------------------
(* getArgs on its own: the flag set it reads has parsed a vector drawn from *)
(* every short vector over an alphabet of plain, blank, quoting, expanding, *)
(* escaping, keyword, control and NUL characters.                           *)

QuoteAlphabet == { "a", "!", " ", "'", "\"", "$", "\\", TAB, SOH, NUL }

\* the size of a vector is its number of arguments plus their total length
MaxSize == 4

RECURSIVE StrsOfLen(_)
StrsOfLen(k) ==
    IF k = 0 THEN { EmptyStr }
    ELSE { Append(str, c) : str \in StrsOfLen(k - 1), c \in QuoteAlphabet }

RECURSIVE VectorsOfSize(_)
\* the vectors of size at most n
VectorsOfSize(n) ==
    { << >> } \cup
    UNION { { <<str>> \o w : str \in StrsOfLen(k), w \in VectorsOfSize(n - 1 - k) } :
            k \in 0..(n - 1) }

\* vectors with a separator: task tokens, "--", pass-through arguments
DashVectors ==
    { (pre \o <<argDash>>) \o post :
        pre \in { << >>, << argBuild >> }, post \in VectorsOfSize(MaxSize) }

\* vectors without a separator
PlainVectors == { << >>, << argBuild >>, << argBuild, argCliArgsVar >> }

InitArgs ==
    /\ pc = "getArgs"
    /\ arguments \in DashVectors \cup PlainVectors
    /\ CommandLine = LET r == Parse(GlobalFlagSet, << >>, arguments)
                     IN [args |-> r.args, argsLenAtDash |-> r.argsLenAtDash]
    /\ InitLocals
    /\ InitFuncsIdle

\* line 201: tasksAndVars, cliArgs, err := getArgs()
CallGetArgs ==
    /\ pc = "getArgs"
    /\ LET r == GetArgs(CommandLine) IN
         /\ tasksAndVars' = r.tasksAndVars
         /\ cliArgs' = r.cliArgs
         /\ err' = r.err
    /\ pc' = "returned"
    /\ UNCHANGED << arguments, CommandLine, pflags, opts, parsed, e, v, calls, globals,
                    builder, runErr, taskfileVars, trace, exit >>
    /\ UNCHANGED funcVars

NextArgs == CallGetArgs

SpecArgs == InitArgs /\ [][NextArgs]_vars

\* an argument that cannot be quoted: it holds a NUL
CannotBeQuoted(str) == Contains(str, NUL)

-----------------------------------------------------------------------------
(* funcs.go: init() builds templateFuncs.  An evaluator is named by the map *)
(* literal it is written in and the key it is written under.                *)

TaskFunc(name) == [lib |-> "task", name |-> name]

SprigFunc(name) == [lib |-> "sprig", name |-> name]

NilFunc == [lib |-> "nil", name |-> ""]

\* lines 17-54: the keys of the map literal
TaskFuncNames ==
    { "OS", "ARCH", "catLines", "splitLines", "fromSlash", "toSlash", "exeExt",
      "shellQuote", "splitArgs", "IsSH", "joinPath", "relPath" }

\* names of the base library that no function of task shares
SprigOnlyNames == { "upper", "trim", "join" }

\* the names the base library may share with task's: none, or some
SprigClashes == { {}, { "OS", "toSlash", "ExeExt" } }

\* a mutation of MapSet: an entry already present is kept
MapSetIfAbsent(m, k, fn) ==
    [n \in (DOMAIN m) \cup { k } |-> IF n \in DOMAIN m THEN m[n] ELSE fn]

\* m[k] = fn
MapSet(m, k, fn) == [n \in (DOMAIN m) \cup { k } |-> IF n = k THEN fn ELSE m[n]]

\* m[k], the zero value when k is absent
MapGet(m, k) == IF k \in DOMAIN m THEN m[k] ELSE NilFunc

\* how many lookups of templateFuncs a behaviour makes
MaxLookups == 2

InitFuncs ==
    /\ pc = "init"
    /\ \E clash \in SprigClashes :
         sprigFuncs = [n \in SprigOnlyNames \cup clash |-> SprigFunc(n)]
    /\ taskFuncs = << >>
    /\ templateFuncs = << >>
    /\ pending = {}
    /\ initRuns = 0
    /\ looked = << >>
    /\ arguments = << >>
    /\ CommandLine = [args |-> << >>, argsLenAtDash |-> GlobalFlagSet.argsLenAtDash]
    /\ InitLocals

\* lines 17-54: taskFuncs := template.FuncMap{...}
BuildTaskFuncs ==
    /\ pc = "init"
    /\ initRuns' = initRuns + 1
    /\ taskFuncs' = [n \in TaskFuncNames |-> TaskFunc(n)]
    /\ pc' = "aliases"
    /\ UNCHANGED << sprigFuncs, templateFuncs, pending, looked >>
    /\ UNCHANGED taskVars

\* lines 56-58: the deprecated aliases
AddAliases ==
    /\ pc = "aliases"
    /\ taskFuncs' =
         MapSet(MapSet(MapSet(taskFuncs, "FromSlash", MapGet(taskFuncs, "fromSlash")),
                       "ToSlash", MapGet(taskFuncs, "toSlash")),
                "ExeExt", MapGet(taskFuncs, "exeExt"))
    /\ pc' = "base"
    /\ UNCHANGED << sprigFuncs, templateFuncs, pending, initRuns, looked >>
    /\ UNCHANGED taskVars

\* line 60: templateFuncs = sprig.TxtFuncMap(); the range loop starts
LoadBase ==
    /\ pc = "base"
    /\ templateFuncs' = sprigFuncs
    /\ pending' = DOMAIN taskFuncs
    /\ pc' = "range"
    /\ UNCHANGED << sprigFuncs, taskFuncs, initRuns, looked >>
    /\ UNCHANGED taskVars

\* lines 61-63: one iteration of the range loop, the keys in any order
MergeOne ==
    /\ pc = "range"
    /\ pending # {}
    /\ \E k \in pending :
         /\ templateFuncs' = MapSet(templateFuncs, k, taskFuncs[k])
         /\ pending' = pending \ { k }
    /\ UNCHANGED << pc, sprigFuncs, taskFuncs, initRuns, looked >>
    /\ UNCHANGED taskVars

\* line 64: init returns
EndInit ==
    /\ pc = "range"
    /\ pending = {}
    /\ pc' = "ready"
    /\ UNCHANGED funcVars
    /\ UNCHANGED taskVars

\* the names a template may look up
LookupNames == (DOMAIN templateFuncs) \cup { "missing" }

\* a template looks a function up in templateFuncs
Lookup ==
    /\ pc = "ready"
    /\ Len(looked) < MaxLookups
    /\ \E n \in LookupNames :
         looked' = Append(looked, [name |-> n, fn |-> MapGet(templateFuncs, n)])
    /\ UNCHANGED << pc, sprigFuncs, taskFuncs, templateFuncs, pending, initRuns >>
    /\ UNCHANGED taskVars

NextFuncs ==
    \/ BuildTaskFuncs
    \/ AddAliases
    \/ LoadBase
    \/ MergeOne
    \/ EndInit
    \/ Lookup

SpecFuncs == InitFuncs /\ [][NextFuncs]_vars

\* the domain-specific names, and the function each deprecated alias renames
DomainNames ==
    { "OS", "ARCH", "catLines", "splitLines", "fromSlash", "toSlash", "exeExt",
      "shellQuote", "splitArgs", "IsSH", "joinPath", "relPath",
      "FromSlash", "ToSlash", "ExeExt" }

Renamed(n) ==
    CASE n = "FromSlash" -> "fromSlash"
      [] n = "ToSlash"   -> "toSlash"
      [] n = "ExeExt"    -> "exeExt"
      [] OTHER           -> n

\* C10: once init has run, every domain-specific name maps to the
\* domain-specific evaluator even when the base library defines the name,
\* every other name of the base library keeps its base evaluator, an alias
\* maps to the evaluator of the function it renames, init has run exactly
\* once, and two lookups of one name return the same evaluator.
C10_Registry ==
    pc = "ready" =>
        /\ DOMAIN templateFuncs = (DOMAIN sprigFuncs) \cup DomainNames
        /\ \A n \in DomainNames : templateFuncs[n] = TaskFunc(Renamed(n))
        /\ \A n \in (DOMAIN sprigFuncs) \ DomainNames : templateFuncs[n] = sprigFuncs[n]
        /\ \A n \in { "FromSlash", "ToSlash", "ExeExt" } :
              templateFuncs[n] = templateFuncs[Renamed(n)]
        /\ initRuns = 1
        /\ \A i, j \in 1..Len(looked) :
              looked[i].name = looked[j].name => looked[i].fn = looked[j].fn

C10_Witness ==
    /\ pc = "ready"
    /\ "ExeExt" \in DOMAIN sprigFuncs
    /\ Len(looked) = 2
    /\ looked[1].name = "ExeExt"
    /\ looked[2].name = "ExeExt"
    /\ looked[1].fn = TaskFunc("exeExt")

=============================================================================
